---- MODULE Spec2Model ----
(***************************************************************************)
(* Model of toolkit_theme.py: the Neural Black theme tables, get_console   *)
(* and the two print helpers, print_status and print_section.              *)
(*                                                                         *)
(* Strings are TLA+ strings.  The glyphs of STATUS_ICONS are not ASCII, so *)
(* each glyph is written as the name of its code points ("U+2705"); two    *)
(* keys have the same glyph in the source exactly when they have the same  *)
(* name here.                                                              *)
(***************************************************************************)
EXTENDS Naturals, Sequences, FiniteSets, TLC

VARIABLES
    toolkit_theme,       \* the style table: style name -> style definition
    STATUS_ICONS,        \* the icon table: status kind -> glyph
    PROGRESS_BAR_STYLE,  \* the progress-bar style table
    consoles,            \* every Console constructed so far, by identity 1..Len
    handed,              \* the identity each get_console() call returned, in call order
    pc,                  \* position of the current helper call
    frame,               \* arguments and locals of the current (or last) helper call
    print_calls,         \* console.print calls made by that call, in order
    output,              \* the print calls whose text reached the terminal, in order
    raised               \* the exception that left the call, or None

vars == <<toolkit_theme, STATUS_ICONS, PROGRESS_BAR_STYLE, consoles, handed,
          pc, frame, print_calls, output, raised>>

-----------------------------------------------------------------------------
(* Bounds and inputs *)

MaxConsoles == 3

None == "None"
Omitted == "<omitted>"

Messages == {"", "Phase 3 Complete", "Unknown thing"}
Titles == {"", "Title"}
Bodies == {"", "Body text"}

-----------------------------------------------------------------------------
(* The three tables, as the dict literals of the source: (key, value) pairs *)
(* in source order.                                                         *)

toolkit_theme_items ==
    << <<"success", "bold #00FF88">>,
       <<"warning", "bold #FFD166">>,
       <<"error", "bold #FF5555">>,
       <<"info", "bold #00AEEF">>,
       <<"context", "#00AEEF">>,
       <<"comment", "dim #7B7F8B">>,
       <<"meta", "italic #7B7F8B">>,
       <<"educational", "#B26FFF">>,
       <<"diff.add", "black on #00FF88">>,
       <<"diff.remove", "black on #FF4C6A">>,
       <<"diff.context", "#E0E0E0">>,
       <<"prompt", "bold #00AEEF">>,
       <<"title", "bold #00AEEF">>,
       <<"subtitle", "#7B7F8B">>,
       <<"file", "#00AEEF">>,
       <<"path", "#00FF88">>,
       <<"code.keyword", "#00AEEF">>,
       <<"code.function", "#00FF88">>,
       <<"code.string", "#FFD166">>,
       <<"code.number", "#B26FFF">>,
       <<"code.comment", "#7B7F8B">>,
       <<"code.type", "#00AEEF">>,
       <<"code.operator", "#00FF88">>,
       <<"progress.description", "#E0E0E0">>,
       <<"progress.percentage", "#00FF88">>,
       <<"progress.download", "#00AEEF">>,
       <<"progress.remaining", "#7B7F8B">>,
       <<"table.header", "bold #00AEEF">>,
       <<"table.border", "#3A3A3A">>,
       <<"table.cell", "#E0E0E0">>,
       <<"link", "underline #00FF88">>,
       <<"highlight", "reverse #00FF88">>,
       <<"emphasis", "#FFD166">>,
       <<"strong", "bold #00FF88">> >>

STATUS_ICONS_items ==
    << <<"success", "U+2705">>,
       <<"warning", "U+26A0 U+FE0F">>,
       <<"error", "U+274C">>,
       <<"info", "U+1F4A1">>,
       <<"context", "U+1F9E9">>,
       <<"learning", "U+1F4A1">>,
       <<"drift", "U+26A0 U+FE0F">>,
       <<"ship", "U+1F680">>,
       <<"thought", "U+1F9E0">>,
       <<"lambda", "U+03BB">> >>

PROGRESS_BAR_STYLE_items ==
    << <<"bar.complete", "#00FF88">>,
       <<"bar.finished", "#00FF88">>,
       <<"bar.pulse", "#00AEEF">>,
       <<"progress.elapsed", "#7B7F8B">> >>

\* A Python dict display: each key once, a repeated key keeps its last value.
Dict(items) ==
    [k \in {items[i][1] : i \in DOMAIN items} |->
        items[CHOOSE i \in DOMAIN items :
                 /\ items[i][1] = k
                 /\ \A j \in DOMAIN items : j > i => items[j][1] # k][2]]

\* A typo in one entry: the '#' of the colour is lost.
toolkit_theme_load_typo ==
    [Dict(toolkit_theme_items) EXCEPT !["success"] = "bold 00FF88"]

\* The "context" and "info" entries are left out of the theme.
toolkit_theme_load_short ==
    [k \in DOMAIN Dict(toolkit_theme_items) \ {"context", "info"} |->
        Dict(toolkit_theme_items)[k]]

toolkit_theme_load == Dict(toolkit_theme_items)

STATUS_ICONS_load == Dict(STATUS_ICONS_items)

PROGRESS_BAR_STYLE_load == Dict(PROGRESS_BAR_STYLE_items)

Statuses ==
    DOMAIN toolkit_theme_load \cup DOMAIN STATUS_ICONS_load
        \cup {"nonexistent_status", "bold"}

-----------------------------------------------------------------------------
(* Style definitions, as the console's style parser reads them *)

\* str.split(): the words of s, separated by runs of spaces.
RECURSIVE SplitWords(_, _, _)
SplitWords(s, cur, acc) ==
    IF s = ""
    THEN IF cur = "" THEN acc ELSE Append(acc, cur)
    ELSE LET c == SubSeq(s, 1, 1)
             rest == SubSeq(s, 2, Len(s))
         IN  IF c = " "
             THEN SplitWords(rest, "", IF cur = "" THEN acc ELSE Append(acc, cur))
             ELSE SplitWords(rest, cur \o c, acc)

Split(s) == SplitWords(s, "", <<>>)

HexDigits == {"0", "1", "2", "3", "4", "5", "6", "7", "8", "9",
              "a", "b", "c", "d", "e", "f", "A", "B", "C", "D", "E", "F"}

\* #RRGGBB (the parser lower-cases the word first, so both cases are accepted).
IsHexColor(w) ==
    /\ Len(w) = 7
    /\ SubSeq(w, 1, 1) = "#"
    /\ \A i \in 2..7 : SubSeq(w, i, i) \in HexDigits

\* The standard colour names (the parser knows the whole 256-colour list).
NamedColors == {"default", "black", "red", "green", "yellow", "blue", "magenta",
                "cyan", "white", "bright_black", "bright_red", "bright_green",
                "bright_yellow", "bright_blue", "bright_magenta", "bright_cyan",
                "bright_white"}

IsColor(w) == IsHexColor(w) \/ w \in NamedColors

\* The weight and decoration words of a style definition.
StyleAttributes == {"dim", "d", "bold", "b", "italic", "i", "underline", "u",
                    "blink", "blink2", "reverse", "r", "conceal", "c", "strike",
                    "s", "underline2", "uu", "frame", "encircle", "overline", "o"}

\* Whether the words from position i on form a style definition.
RECURSIVE WordsParse(_, _)
WordsParse(ws, i) ==
    IF i > Len(ws) THEN TRUE
    ELSE IF ws[i] = "on"
         THEN i + 1 <= Len(ws) /\ IsColor(ws[i + 1]) /\ WordsParse(ws, i + 2)
    ELSE IF ws[i] = "not"
         THEN i + 1 <= Len(ws) /\ ws[i + 1] \in StyleAttributes /\ WordsParse(ws, i + 2)
    ELSE IF ws[i] = "link"
         THEN i + 1 <= Len(ws) /\ WordsParse(ws, i + 2)
    ELSE IF ws[i] \in StyleAttributes
         THEN WordsParse(ws, i + 1)
    ELSE IsColor(ws[i]) /\ WordsParse(ws, i + 1)

\* Style.parse accepts the definition (the empty definition is the null style).
StyleParses(definition) == WordsParse(Split(definition), 1)

-----------------------------------------------------------------------------
(* The console *)

Console(theme, highlight) == [theme |-> theme, highlight |-> highlight]

\* get_console() returning the first console again once one exists.
get_console_cached(cs) ==
    IF Len(cs) > 0
    THEN [consoles |-> cs, id |-> 1]
    ELSE [consoles |-> Append(cs, Console(toolkit_theme, FALSE)), id |-> 1]

\* get_console(): a new Console(theme=toolkit_theme, highlight=False).
get_console(cs) ==
    [consoles |-> Append(cs, Console(toolkit_theme, FALSE)), id |-> Len(cs) + 1]

\* console.get_style(name): a theme entry, else the name parsed as a definition.
StyleResolves(console, name) ==
    name \in DOMAIN console.theme \/ StyleParses(name)

\* What console.print(text, style=style) can do: a style that does not resolve
\* raises MissingStyle before anything is written; otherwise the text is
\* written, unless the output stream fails.
ConsolePrintResults(console, style) ==
    IF StyleResolves(console, style) THEN {"ok", "OSError"} ELSE {"MissingStyle"}

-----------------------------------------------------------------------------
(* The helpers' expressions *)

DefaultArg(passed, default) == IF passed = Omitted THEN default ELSE passed

\* STATUS_ICONS.get(status, status): the default is the key, not "".
STATUS_ICONS_get_echo(icons, status) ==
    IF status \in DOMAIN icons THEN icons[status] ELSE status

\* STATUS_ICONS.get(status, "")
STATUS_ICONS_get(icons, status) ==
    IF status \in DOMAIN icons THEN icons[status] ELSE ""

\* STATUS_ICONS.setdefault(status, "") in place of get: the miss is stored.
STATUS_ICONS_after_setdefault(icons, status) ==
    IF status \in DOMAIN icons THEN icons
    ELSE [k \in DOMAIN icons \cup {status} |->
             IF k = status THEN "" ELSE icons[k]]

\* dict.get leaves the dict as it is.
STATUS_ICONS_after_get(icons, status) == icons

\* f"{icon}{message}": the space is lost.
StatusText_nospace(icon, message) == icon \o message

\* f"{icon} {message}"
StatusText(icon, message) == icon \o " " \o message

\* f"\n{title}"
SectionTitleText(title) == "\n" \o title

\* `if body:` always taken.
Truthy_always(s) == TRUE

\* Python truth of a str
Truthy(s) == s # ""

\* A failed print is swallowed and the helper goes on.
AfterPrint_swallow(result, next) == [pc |-> next, raised |-> None]

\* No try/except around console.print: a result other than "ok" leaves the
\* helper at once, as the exception the console raised.
AfterPrint(result, next) ==
    IF result = "ok" THEN [pc |-> next, raised |-> None]
    ELSE [pc |-> "raised", raised |-> result]

\* A write that fails still leaves its text on the terminal.
Written_always(out, call, result) == Append(out, call)

\* The terminal after console.print(call) ended with result.
Written(out, call, result) == IF result = "ok" THEN Append(out, call) ELSE out

PrintCall(text, style) == [text |-> text, style |-> style]

-----------------------------------------------------------------------------
(* Actions *)

Idle == pc \in {"idle", "returned", "raised"}

Init ==
    /\ toolkit_theme = toolkit_theme_load
    /\ STATUS_ICONS = STATUS_ICONS_load
    /\ PROGRESS_BAR_STYLE = PROGRESS_BAR_STYLE_load
    /\ consoles = <<>>
    /\ handed = <<>>
    /\ pc = "idle"
    /\ frame = [op |-> "none"]
    /\ print_calls = <<>>
    /\ output = <<>>
    /\ raised = None

\* A caller's own get_console().
GetConsole ==
    /\ Idle
    /\ Len(handed) < MaxConsoles
    /\ LET g == get_console(consoles)
       IN  /\ consoles' = g.consoles
           /\ handed' = Append(handed, g.id)
           /\ frame' = [op |-> "get_console", console |-> g.id]
    /\ pc' = "returned"
    /\ print_calls' = <<>>
    /\ output' = <<>>
    /\ raised' = None
    /\ UNCHANGED <<toolkit_theme, STATUS_ICONS, PROGRESS_BAR_STYLE>>

\* print_status(message[, status]) up to its console.print: lines 121-123.
PrintStatusCall ==
    /\ Idle
    /\ Len(handed) < MaxConsoles
    /\ \E message \in Messages, passed \in Statuses \cup {Omitted} :
         LET status == DefaultArg(passed, "info")
             g == get_console(consoles)
         IN  /\ consoles' = g.consoles
             /\ handed' = Append(handed, g.id)
             /\ STATUS_ICONS' = STATUS_ICONS_after_get(STATUS_ICONS, status)
             /\ frame' = [op |-> "print_status", message |-> message,
                          passed |-> passed, status |-> status, console |-> g.id,
                          icon |-> STATUS_ICONS_get(STATUS_ICONS, status),
                          style |-> status]
    /\ pc' = "status_print"
    /\ print_calls' = <<>>
    /\ output' = <<>>
    /\ raised' = None
    /\ UNCHANGED <<toolkit_theme, PROGRESS_BAR_STYLE>>

\* console.print(f"{icon} {message}", style=style): line 124.
PrintStatusPrint ==
    /\ pc = "status_print"
    /\ LET call == PrintCall(StatusText(frame.icon, frame.message), frame.style)
       IN  \E result \in ConsolePrintResults(consoles[frame.console], call.style) :
             /\ print_calls' = Append(print_calls, call)
             /\ output' = Written(output, call, result)
             /\ pc' = AfterPrint(result, "returned").pc
             /\ raised' = AfterPrint(result, "returned").raised
    /\ UNCHANGED <<toolkit_theme, STATUS_ICONS, PROGRESS_BAR_STYLE, consoles,
                   handed, frame>>

\* print_section(title[, body]) up to its first console.print: line 134.
PrintSectionCall ==
    /\ Idle
    /\ Len(handed) < MaxConsoles
    /\ \E title \in Titles, passed \in Bodies \cup {Omitted} :
         LET g == get_console(consoles)
         IN  /\ consoles' = g.consoles
             /\ handed' = Append(handed, g.id)
             /\ frame' = [op |-> "print_section", title |-> title,
                          passed |-> passed, body |-> DefaultArg(passed, ""),
                          console |-> g.id]
    /\ pc' = "section_title"
    /\ print_calls' = <<>>
    /\ output' = <<>>
    /\ raised' = None
    /\ UNCHANGED <<toolkit_theme, STATUS_ICONS, PROGRESS_BAR_STYLE>>

\* console.print(f"\n{title}", style="title"), then `if body:`: lines 135-136.
PrintSectionTitle ==
    /\ pc = "section_title"
    /\ LET call == PrintCall(SectionTitleText(frame.title), "title")
           next == IF Truthy(frame.body) THEN "section_body" ELSE "returned"
       IN  \E result \in ConsolePrintResults(consoles[frame.console], call.style) :
             /\ print_calls' = Append(print_calls, call)
             /\ output' = Written(output, call, result)
             /\ pc' = AfterPrint(result, next).pc
             /\ raised' = AfterPrint(result, next).raised
    /\ UNCHANGED <<toolkit_theme, STATUS_ICONS, PROGRESS_BAR_STYLE, consoles,
                   handed, frame>>

\* console.print(body, style="context"): line 137.
PrintSectionBody ==
    /\ pc = "section_body"
    /\ LET call == PrintCall(frame.body, "context")
       IN  \E result \in ConsolePrintResults(consoles[frame.console], call.style) :
             /\ print_calls' = Append(print_calls, call)
             /\ output' = Written(output, call, result)
             /\ pc' = AfterPrint(result, "returned").pc
             /\ raised' = AfterPrint(result, "returned").raised
    /\ UNCHANGED <<toolkit_theme, STATUS_ICONS, PROGRESS_BAR_STYLE, consoles,
                   handed, frame>>

Next ==
    \/ GetConsole
    \/ PrintStatusCall
    \/ PrintStatusPrint
    \/ PrintSectionCall
    \/ PrintSectionTitle
    \/ PrintSectionBody

Spec == Init /\ [][Next]_vars

-----------------------------------------------------------------------------
(* Properties *)

Finished == pc \in {"returned", "raised"}

IsPrefix(a, b) == Len(a) <= Len(b) /\ SubSeq(b, 1, Len(a)) = a

IconKeys == {"success", "warning", "error", "info", "context", "learning",
             "drift", "ship", "thought", "lambda"}

\* The complete sequence of writes of print_section(title, body).
SectionWrites(title, body) ==
    <<[text |-> "\n" \o title, style |-> "title"]>>
        \o (IF body = "" THEN <<>> ELSE <<[text |-> body, style |-> "context"]>>)

\* The single write of print_status(message, status).
StatusWrite(message, status) ==
    [text |-> (IF status \in DOMAIN STATUS_ICONS THEN STATUS_ICONS[status] ELSE "")
                  \o " " \o message,
     style |-> status]

\* C1: for a status that is a key of the style table, print_status(message,
\* status) makes exactly one console write, of the icon of status, one space
\* and message, under the style name status itself; an omitted status is
\* "info".  A call that returns has that one write on the terminal.
C1_PrintStatusWritesOnce ==
    (frame.op = "print_status" /\ frame.status \in DOMAIN toolkit_theme) =>
        /\ frame.status = (IF frame.passed = Omitted THEN "info" ELSE frame.passed)
        /\ pc = "status_print" => print_calls = <<>>
        /\ Finished => print_calls = <<StatusWrite(frame.message, frame.status)>>
        /\ pc = "returned" => output = print_calls

C1_Witness ==
    /\ frame.op = "print_status"
    /\ frame.message = "Phase 3 Complete"
    /\ frame.passed = "success"
    /\ pc = "returned"
    /\ output = <<[text |-> "U+2705 Phase 3 Complete", style |-> "success"]>>

\* C2: print_status(message, status) with a status that is neither an icon key
\* nor a style key does not raise: it writes " " + message and returns (a
\* failure of the output stream itself set aside).
C2_UnknownStatusDoesNotRaise ==
    ( /\ frame.op = "print_status"
      /\ frame.status \notin DOMAIN STATUS_ICONS
      /\ frame.status \notin DOMAIN toolkit_theme
      /\ Finished
      /\ raised # "OSError" ) =>
        /\ pc = "returned"
        /\ output = <<[text |-> " " \o frame.message, style |-> frame.status]>>

\* C3: the icon lookup is total: a key of the icon table gives that key's
\* (non-empty) glyph, "warning" and "drift" the same one, and any other string
\* gives the empty string.
C3_IconLookupTotal ==
    frame.op = "print_status" =>
        /\ frame.status \in IconKeys =>
              /\ frame.icon = STATUS_ICONS[frame.status]
              /\ frame.icon # ""
        /\ frame.status \in {"warning", "drift"} => frame.icon = "U+26A0 U+FE0F"
        /\ frame.status \notin IconKeys => frame.icon = ""

C3_Witness ==
    /\ frame.op = "print_status"
    /\ frame.status = "nonexistent_status"
    /\ frame.icon = ""
    /\ pc = "status_print"

\* C4: print_section(title, body) writes "\n" + title under "title" first, and
\* body under "context" as a second, later write exactly when body is not
\* empty (the default body is empty); the body is never written before the
\* title, and a call that returns has written exactly these.
C4_SectionOrder ==
    frame.op = "print_section" =>
        /\ frame.body = (IF frame.passed = Omitted THEN "" ELSE frame.passed)
        /\ IsPrefix(print_calls, SectionWrites(frame.title, frame.body))
        /\ IsPrefix(output, print_calls)
        /\ pc = "section_title" => print_calls = <<>>
        /\ pc = "section_body" =>
              output = <<[text |-> "\n" \o frame.title, style |-> "title"]>>
        /\ pc = "returned" => output = SectionWrites(frame.title, frame.body)

C4_Witness ==
    /\ frame.op = "print_section"
    /\ pc = "returned"
    /\ output = <<[text |-> "\nTitle", style |-> "title"],
                  [text |-> "Body text", style |-> "context"]>>

\* C5: every get_console() constructs a new console, never one handed out
\* before, with the style table as theme and highlighting off; each helper
\* call uses the console it constructed, and all consoles are configured alike.
C5_FreshIdenticalConsoles ==
    /\ Len(handed) = Len(consoles)
    /\ \A i, j \in DOMAIN handed : i # j => handed[i] # handed[j]
    /\ \A i \in DOMAIN consoles :
          consoles[i] = [theme |-> toolkit_theme_load, highlight |-> FALSE]
    /\ frame.op # "none" =>
          /\ frame.console = handed[Len(handed)]
          /\ frame.console \in DOMAIN consoles

C5_Witness ==
    /\ Len(handed) = 3
    /\ frame.op = "print_section"
    /\ pc = "returned"

\* C6: the style table, the icon table and the progress-bar table hold, in
\* every state, exactly the entries they had at load time, each key once.
C6_TablesConstant ==
    /\ toolkit_theme = Dict(toolkit_theme_items)
    /\ STATUS_ICONS = Dict(STATUS_ICONS_items)
    /\ PROGRESS_BAR_STYLE = Dict(PROGRESS_BAR_STYLE_items)
    /\ Cardinality(DOMAIN toolkit_theme) = Len(toolkit_theme_items)
    /\ Cardinality(DOMAIN STATUS_ICONS) = Len(STATUS_ICONS_items)
    /\ Cardinality(DOMAIN PROGRESS_BAR_STYLE) = Len(PROGRESS_BAR_STYLE_items)

C6_Witness ==
    /\ Len(handed) >= 2
    /\ frame.op = "print_status"
    /\ frame.status = "nonexistent_status"
    /\ pc = "raised"

\* C7 as stated: a finished call of print_status or print_section has either
\* completed its output or written nothing.
C7_AllOrNothing ==
    /\ (frame.op = "print_status" /\ Finished) =>
          output \in {<<>>, <<StatusWrite(frame.message, frame.status)>>}
    /\ (frame.op = "print_section" /\ Finished) =>
          output \in {<<>>, SectionWrites(frame.title, frame.body)}

\* C7 amended: print_status, and print_section with an empty body, complete
\* their one write or write nothing; print_section with a non-empty body also
\* ends, when its second write fails, with the title written and the body not.
\* What a call has written is always a prefix of its complete output.
C7_PrefixOnFailure ==
    /\ (frame.op = "print_status" /\ Finished) =>
          /\ pc = "returned" => output = <<StatusWrite(frame.message, frame.status)>>
          /\ pc = "raised" => output = <<>>
    /\ (frame.op = "print_section" /\ Finished) =>
          /\ IsPrefix(output, SectionWrites(frame.title, frame.body))
          /\ pc = "returned" => output = SectionWrites(frame.title, frame.body)
          /\ (pc = "raised" /\ frame.body = "") => output = <<>>
          /\ (pc = "raised" /\ output # <<>>) =>
                /\ frame.body # ""
                /\ output = <<[text |-> "\n" \o frame.title, style |-> "title"]>>

C7_Witness ==
    /\ frame.op = "print_section"
    /\ pc = "raised"
    /\ frame.body = "Body text"
    /\ output = <<[text |-> "\nTitle", style |-> "title"]>>
    /\ Len(print_calls) = 2

\* C8: every key of the style table has a non-empty style definition that
\* parses and holds a colour token (#RRGGBB or a colour name), with nothing
\* but weight and decoration words before it.
C8_StylesHaveColor ==
    \A k \in DOMAIN toolkit_theme :
        LET ws == Split(toolkit_theme[k])
        IN  /\ toolkit_theme[k] # ""
            /\ StyleParses(toolkit_theme[k])
            /\ \E i \in DOMAIN ws :
                  /\ IsHexColor(ws[i]) \/ ws[i] \in NamedColors
                  /\ \A j \in 1..(i - 1) : ws[j] \in StyleAttributes

C8_Witness ==
    /\ frame.op = "print_status"
    /\ frame.style = "diff.add"
    /\ toolkit_theme[frame.style] = "black on #00FF88"
    /\ pc = "returned"

\* C9: a console write that fails during print_status or print_section reaches
\* the caller as the error the console raised; the helper makes no write
\* after the failing one and does not try it again.
C9_FailurePropagates ==
    /\ IsPrefix(output, print_calls)
    /\ Len(print_calls) <= Len(output) + 1
    /\ (pc = "raised") <=> (raised # None)
    /\ (pc = "raised") <=> (Len(print_calls) = Len(output) + 1)
    /\ pc = "raised" =>
          LET failed == print_calls[Len(print_calls)]
          IN  raised = (IF failed.style \in DOMAIN toolkit_theme
                            \/ StyleParses(failed.style)
                        THEN "OSError" ELSE "MissingStyle")

C9_Witness ==
    /\ frame.op = "print_section"
    /\ frame.body = "Body text"
    /\ pc = "raised"
    /\ raised = "OSError"
    /\ print_calls = <<[text |-> "\nTitle", style |-> "title"]>>
    /\ output = <<>>

\* C10 as stated: every key of the icon table is a key of the style table.
C10_IconKeysAreStyleKeys ==
    \A k \in DOMAIN STATUS_ICONS : k \in DOMAIN toolkit_theme

\* C10 amended: every key of the icon table other than learning, drift, ship,
\* thought and lambda is a key of the style table, so print_status with it has
\* a non-empty icon and a style that resolves; this covers the default "info"
\* and the documented success, warning, error and info.
C10_StyledIconKeys ==
    /\ \A k \in DOMAIN STATUS_ICONS \ {"learning", "drift", "ship", "thought", "lambda"} :
          k \in DOMAIN toolkit_theme /\ STATUS_ICONS[k] # ""
    /\ {"success", "warning", "error", "info"}
          \subseteq (DOMAIN STATUS_ICONS \cap DOMAIN toolkit_theme)
    /\ ( /\ frame.op = "print_status"
         /\ frame.status \in DOMAIN STATUS_ICONS
                \ {"learning", "drift", "ship", "thought", "lambda"} ) =>
          /\ frame.icon # ""
          /\ frame.style \in DOMAIN consoles[frame.console].theme
          /\ raised # "MissingStyle"
    /\ (frame.op = "print_status" /\ frame.passed = Omitted) =>
          /\ frame.status = "info"
          /\ frame.style \in DOMAIN consoles[frame.console].theme

C10_Witness ==
    /\ frame.op = "print_status"
    /\ frame.passed = Omitted
    /\ frame.icon = "U+1F4A1"
    /\ pc = "returned"
    /\ output = <<[text |-> "U+1F4A1 Unknown thing", style |-> "info"]>>

====
